---- MODULE Spec2Model ----
(***************************************************************************)
(* SD CGraph Renderer (src/SD_CGraph_Renderer.py): the overlay lifecycle   *)
(* (toggle / refresh / register / unregister), the node-tree injection     *)
(* manager (inject_curve_to_mesh / remove_curve_to_mesh) and the viewport  *)
(* draw callback (draw_lines_callback), as one state machine.              *)
(*                                                                         *)
(* Numbers that are floats in the source are rationals <<num, den>> with   *)
(* den > 0.  Strings that the code inspects character by character (node   *)
(* group names) are sequences of one-character strings.                    *)
(***************************************************************************)
EXTENDS Integers, Sequences, FiniteSets, TLC

VARIABLES
    draw_handler,       \* module global, line 17: None or the handle returned by draw_handler_add
    is_drawing_active,  \* module global, line 18
    registered,         \* host: the handles SpaceView3D currently holds for this callback
    loaded,             \* host: TRUE between register() and unregister()
    scene,              \* host: the objects linked to context.scene (a subset of bpy.data.objects)
    trees,              \* host: bpy.data.node_groups, node tree id -> [nodes, links]
    cfg,                \* host: the scene's configuration properties (lines 340-350)
    view,               \* host: per object, what the viewport/depsgraph gives this frame
    gpu,                \* host: gpu.state, [width, depth]
    frame,              \* record of the most recent draw_lines_callback invocation
    hist                \* the operations that produced the current state, latest first

vars == <<draw_handler, is_drawing_active, registered, loaded, scene, trees,
          cfg, view, gpu, frame, hist>>

-----------------------------------------------------------------------------
(* Bounds *)

NumObjs == 5        \* objects in bpy.data.objects
MaxHandles == 2     \* handle ids the viewport can hand out
MaxCoord == 2       \* vertex coordinates handed to the edge shading, 0..MaxCoord

-----------------------------------------------------------------------------
(* Values *)

None == 0

Objs == 1..NumObjs
Handles == 1..MaxHandles

AUTO_NODE_NAME == <<"SNA_Auto_CurveToMesh", 0>>
AUTO_NODE_LABEL == "Auto Renderer Fix"

\* str.lower() on the characters that occur in the node-group names
LowerChar(c) ==
    CASE c = "C" -> "c"
      [] c = "G" -> "g"
      [] c = "R" -> "r"
      [] c = "A" -> "a"
      [] c = "P" -> "p"
      [] c = "H" -> "h"
      [] c = "S" -> "s"
      [] c = "D" -> "d"
      [] OTHER -> c

Lower(s) == [i \in DOMAIN s |-> LowerChar(s[i])]

\* Python's `sub in s` on strings
Contains(s, sub) ==
    \E i \in 0..(Len(s) - Len(sub)) : SubSeq(s, i + 1, i + Len(sub)) = sub

CGRAPH == <<"c", "g", "r", "a", "p", "h">>

\* bpy.data.node_groups: the name of each node tree
TreeNames == <<
    <<"S", "D", "_", "C", "G", "r", "a", "p", "h">>,
    <<"c", "g", "r", "a", "p", "h", "2">>,
    <<"G", "r", "a", "p", "h">> >>

TreeIds == DOMAIN TreeNames

\* Custom properties of a modifier: key -> value, a number or something else
PNum(n, d) == [num |-> TRUE, val |-> <<n, d>>]
PText == [num |-> FALSE, val |-> <<0, 1>>]
Props1(k1, v1) == [k \in {k1} |-> v1]
Props3(k1, v1, k2, v2, k3, v3) ==
    [k \in {k1, k2, k3} |-> IF k = k1 THEN v1 ELSE IF k = k2 THEN v2 ELSE v3]
NoProps == [k \in {} |-> PText]

Mod(type, group, props) == [type |-> type, node_group |-> group, props |-> props]

\* The kinds of object in the data store; object o is of kind ((o-1) % 4) + 1.
\* matrix_world is a uniform scale by world_scale.
ObjKinds == <<
    \* 1: a mesh whose only modifier evaluates tree 1 ("SD_CGraph")
    [type |-> "MESH", world_scale |-> 1,
     modifiers |-> << Mod("NODES", 1, Props1("Graph Scale", PNum(2, 1))) >>],
    \* 2: a mesh with no matching modifier (tree 3 is named "Graph")
    [type |-> "MESH", world_scale |-> 1,
     modifiers |-> << Mod("NODES", 3, Props1("Graph Scale", PNum(7, 1))) >>],
    \* 3: a curve with non-matching modifiers before two matching ones
    [type |-> "CURVE", world_scale |-> 2,
     modifiers |-> << Mod("SUBSURF", None, NoProps),
                      Mod("NODES", None, NoProps),
                      Mod("NODES", 3, Props1("Graph Scale", PNum(7, 1))),
                      Mod("NODES", 2, Props3("Scale", PNum(5, 1), "Input_3", PNum(0, 1),
                                             "Graph Scale", PText)),
                      Mod("NODES", 1, NoProps) >>],
    \* 4: a text object that shares tree 2 with kind 3
    [type |-> "FONT", world_scale |-> 1,
     modifiers |-> << Mod("NODES", 2, NoProps) >>] >>

ObjKind(o) == ObjKinds[((o - 1) % Len(ObjKinds)) + 1]

\* scene.objects / bpy.data.objects iterate in a fixed order: ascending id
RECURSIVE SetToSeq(_)
SetToSeq(S) ==
    IF S = {} THEN <<>>
    ELSE LET m == CHOOSE x \in S : \A y \in S : x <= y
         IN  <<m>> \o SetToSeq(S \ {m})

-----------------------------------------------------------------------------
(* Node trees *)

Node(name, type, active, label, loc) ==
    [name |-> name, type |-> type, is_active_output |-> active,
     label |-> label, loc |-> loc]

Link(fn, fs, tn, ts) == [fn |-> fn, fs |-> fs, tn |-> tn, ts |-> ts]

SrcNode == Node(<<"Curve Source", 0>>, "OTHER", FALSE, "", <<0, 0>>)
Src2Node == Node(<<"Second Source", 0>>, "OTHER", FALSE, "", <<0, 100>>)
ViewNode == Node(<<"Viewer", 0>>, "OTHER", FALSE, "", <<400, 100>>)
OutNode(active) == Node(<<"Group Output", 0>>, "GROUP_OUTPUT", active, "", <<400, 0>>)
Out2Node(active) == Node(<<"Group Output", 1>>, "GROUP_OUTPUT", active, "", <<400, 200>>)
BridgeNode == Node(AUTO_NODE_NAME, "CURVE_TO_MESH", FALSE, AUTO_NODE_LABEL, <<200, 0>>)

SrcName == SrcNode.name
Src2Name == Src2Node.name
ViewName == ViewNode.name
OutName == OutNode(TRUE).name
Out2Name == Out2Node(TRUE).name

Tree(nodes, links) == [nodes |-> nodes, links |-> links]

\* source -> output: the single linear chain
ShapeLinear ==
    Tree(<<SrcNode, OutNode(TRUE)>>, {Link(SrcName, "Geometry", OutName, "in0")})
\* no output node at all
ShapeNoOutput == Tree(<<SrcNode>>, {})
\* an output node whose geometry input is not linked
ShapeUnlinked == Tree(<<SrcNode, OutNode(TRUE)>>, {})
\* two output nodes, the second one flagged active; the source also feeds a viewer
ShapeTwoOutputs ==
    Tree(<<SrcNode, Src2Node, OutNode(FALSE), Out2Node(TRUE), ViewNode>>,
         {Link(SrcName, "Geometry", OutName, "in0"),
          Link(Src2Name, "Geometry", Out2Name, "in0"),
          Link(Src2Name, "Geometry", ViewName, "in0"),
          Link(SrcName, "Geometry", Out2Name, "in1")})
\* two output nodes, none flagged active
ShapeNoActive ==
    Tree(<<Src2Node, SrcNode, OutNode(FALSE), Out2Node(FALSE)>>,
         {Link(SrcName, "Geometry", OutName, "in0"),
          Link(Src2Name, "Geometry", Out2Name, "in0")})
\* a tree saved with the bridging node in place (file saved while the overlay was on)
ShapeBridged ==
    Tree(<<SrcNode, OutNode(TRUE), BridgeNode>>,
         {Link(SrcName, "Geometry", AUTO_NODE_NAME, "Curve"),
          Link(AUTO_NODE_NAME, "Mesh", OutName, "in0")})
\* the bridging node's mesh output feeds two targets
ShapeBridgedFanout ==
    Tree(<<SrcNode, OutNode(TRUE), BridgeNode, ViewNode>>,
         {Link(SrcName, "Geometry", AUTO_NODE_NAME, "Curve"),
          Link(AUTO_NODE_NAME, "Mesh", OutName, "in0"),
          Link(AUTO_NODE_NAME, "Mesh", ViewName, "in0")})
\* the bridging node with its curve input unlinked by the user
ShapeBridgedNoInput ==
    Tree(<<SrcNode, OutNode(TRUE), BridgeNode>>,
         {Link(AUTO_NODE_NAME, "Mesh", OutName, "in0")})
\* the bridging node with its mesh output unlinked by the user
ShapeBridgedNoOutput ==
    Tree(<<SrcNode, OutNode(TRUE), BridgeNode>>,
         {Link(SrcName, "Geometry", AUTO_NODE_NAME, "Curve"),
          Link(SrcName, "Geometry", OutName, "in0")})

LifecycleShapes == {ShapeLinear, ShapeNoOutput, ShapeUnlinked, ShapeTwoOutputs, ShapeBridged}

AllShapes == LifecycleShapes \cup
    {ShapeNoActive, ShapeBridgedFanout, ShapeBridgedNoInput, ShapeBridgedNoOutput}

\* `name in tree.nodes`
HasNode(tree, name) == \E i \in DOMAIN tree.nodes : tree.nodes[i].name = name

\* tree.nodes[name]
NodeNamed(tree, name) ==
    tree.nodes[CHOOSE i \in DOMAIN tree.nodes : tree.nodes[i].name = name]

\* socket.is_linked / socket.links for an input socket and an output socket
LinksInto(tree, n, s) == {l \in tree.links : l.tn = n /\ l.ts = s}
LinksFrom(tree, n, s) == {l \in tree.links : l.fn = n /\ l.fs = s}

\* tree.links.new(from_socket, to_socket): an input socket holds one link, so the
\* host drops the link that was there
LinksNew(links, fn, fs, tn, ts) ==
    {l \in links : ~(l.tn = tn /\ l.ts = ts)} \cup {Link(fn, fs, tn, ts)}

\* tree.nodes.new(...) followed by `node.name = base`: the host keeps names unique
\* within a tree by numbering a name that is taken
UniqueName(tree, base) ==
    LET taken == {tree.nodes[i].name : i \in DOMAIN tree.nodes}
        k == CHOOSE n \in 0..Len(tree.nodes) :
                 /\ <<base[1], n>> \notin taken
                 /\ \A m \in 0..(n - 1) : <<base[1], m>> \in taken
    IN  <<base[1], k>>

\* tree.nodes.remove(node): the node goes, and every link at one of its sockets
NodesRemove(tree, name) ==
    LET keep == SelectSeq(tree.nodes, LAMBDA n : n.name # name)
    IN  Tree(keep, {l \in tree.links : l.fn # name /\ l.tn # name})

\* A plausible slip: the last matching modifier is taken instead of the first
find_last_modifier(o) ==
    LET mods == ObjKind(o).modifiers
        hit(i) == /\ mods[i].type = "NODES"
                  /\ mods[i].node_group # None
                  /\ Contains(Lower(TreeNames[mods[i].node_group]), CGRAPH)
    IN  IF \E i \in DOMAIN mods : hit(i)
        THEN CHOOSE i \in DOMAIN mods : hit(i) /\ \A j \in DOMAIN mods : j > i => ~hit(j)
        ELSE None

\* Lines 45-50: index of the first modifier that is node based, has a node group
\* and whose group name contains "cgraph" in lower case; None when there is none.
find_modifier(o) ==
    LET mods == ObjKind(o).modifiers
        hit(i) == /\ mods[i].type = "NODES"
                  /\ mods[i].node_group # None
                  /\ Contains(Lower(TreeNames[mods[i].node_group]), CGRAPH)
    IN  IF \E i \in DOMAIN mods : hit(i)
        THEN CHOOSE i \in DOMAIN mods : hit(i) /\ \A j \in 1..(i - 1) : ~hit(j)
        ELSE None

find_modifier_and_tree(o) ==
    LET i == find_modifier(o)
    IN  IF i = None THEN <<None, None>>
        ELSE <<i, ObjKind(o).modifiers[i].node_group>>

\* A plausible slip: the first output node is taken, flagged active or not
FindFirstOutput(tree) ==
    LET ns == tree.nodes
        out(i) == ns[i].type = "GROUP_OUTPUT"
    IN  IF \E i \in DOMAIN ns : out(i)
        THEN CHOOSE i \in DOMAIN ns : out(i) /\ \A j \in 1..(i - 1) : ~out(j)
        ELSE None

\* Lines 56-63: the output node flagged active, else the first output node, else None
FindOutputNode(tree) ==
    LET ns == tree.nodes
        act(i) == ns[i].type = "GROUP_OUTPUT" /\ ns[i].is_active_output
        out(i) == ns[i].type = "GROUP_OUTPUT"
    IN  IF \E i \in DOMAIN ns : act(i)
        THEN CHOOSE i \in DOMAIN ns : act(i) /\ \A j \in 1..(i - 1) : ~act(j)
        ELSE IF \E i \in DOMAIN ns : out(i)
        THEN CHOOSE i \in DOMAIN ns : out(i) /\ \A j \in 1..(i - 1) : ~out(j)
        ELSE None

\* Lines 67-81 on one tree: the surgery once the output node is known
InjectInto(tree, oi) ==
    LET output_node == tree.nodes[oi]
        socket_in == LinksInto(tree, output_node.name, "in0")
    IN  IF socket_in = {} THEN tree
        ELSE LET link == CHOOSE l \in socket_in : TRUE
                 name == UniqueName(tree, AUTO_NODE_NAME)
                 c2m_node == Node(name, "CURVE_TO_MESH", FALSE, AUTO_NODE_LABEL,
                                  <<output_node.loc[1] - 200, output_node.loc[2]>>)
                 l1 == tree.links \ {link}
                 l2 == LinksNew(l1, link.fn, link.fs, name, "Curve")
                 l3 == LinksNew(l2, name, "Mesh", output_node.name, "in0")
             IN  Tree(Append(tree.nodes, c2m_node), l3)

\* A plausible slip: the "already injected" test of line 54 left out
inject_without_guard(trs, o) ==
    LET tree == find_modifier_and_tree(o)[2]
    IN  IF tree = None THEN trs
        ELSE LET oi == FindOutputNode(trs[tree])
             IN  IF oi = None THEN trs
                 ELSE [trs EXCEPT ![tree] = InjectInto(trs[tree], oi)]

\* Lines 52-81
inject_curve_to_mesh(trs, o) ==
    LET tree == find_modifier_and_tree(o)[2]
    IN  IF tree = None \/ HasNode(trs[tree], AUTO_NODE_NAME) THEN trs
        ELSE LET oi == FindOutputNode(trs[tree])
             IN  IF oi = None THEN trs
                 ELSE [trs EXCEPT ![tree] = InjectInto(trs[tree], oi)]

\* A plausible slip: only the first link at the mesh output is reconnected
ReconnectFirstOnly(links, fn, fs, targets) ==
    IF targets = {} THEN links
    ELSE LET link == CHOOSE l \in targets : TRUE
         IN  LinksNew(links, fn, fs, link.tn, link.ts)

\* Lines 94-96: one links.new per link at the mesh output
RECURSIVE Reconnect(_, _, _, _)
Reconnect(links, fn, fs, targets) ==
    IF targets = {} THEN links
    ELSE LET link == CHOOSE l \in targets : TRUE
         IN  Reconnect(LinksNew(links, fn, fs, link.tn, link.ts), fn, fs,
                       targets \ {link})

\* A plausible slip: the node is deleted without the reconnection of lines 92-96
remove_without_reconnect(trs, o) ==
    LET tree == find_modifier_and_tree(o)[2]
    IN  IF tree = None THEN trs
        ELSE IF ~HasNode(trs[tree], AUTO_NODE_NAME) THEN trs
        ELSE [trs EXCEPT ![tree] = NodesRemove(trs[tree], AUTO_NODE_NAME)]

\* A plausible slip: the "bridging node absent" test of line 86 left out, so the
\* removal falls on the last node created in the tree
remove_without_guard(trs, o) ==
    LET tree == find_modifier_and_tree(o)[2]
    IN  IF tree = None THEN trs
        ELSE IF trs[tree].nodes = <<>> THEN trs
        ELSE LET t == trs[tree]
                 name == IF HasNode(t, AUTO_NODE_NAME) THEN AUTO_NODE_NAME
                         ELSE t.nodes[Len(t.nodes)].name
             IN  [trs EXCEPT ![tree] = NodesRemove(t, name)]

\* Lines 83-98
remove_curve_to_mesh(trs, o) ==
    LET tree == find_modifier_and_tree(o)[2]
    IN  IF tree = None THEN trs
        ELSE IF ~HasNode(trs[tree], AUTO_NODE_NAME) THEN trs
        ELSE LET t == trs[tree]
                 input_socket == LinksInto(t, AUTO_NODE_NAME, "Curve")
                 output_socket == LinksFrom(t, AUTO_NODE_NAME, "Mesh")
                 relinked ==
                     IF input_socket # {} /\ output_socket # {}
                     THEN LET from == CHOOSE l \in input_socket : TRUE
                          IN  Reconnect(t.links, from.fn, from.fs, output_socket)
                     ELSE t.links
             IN  [trs EXCEPT ![tree] = NodesRemove(Tree(t.nodes, relinked), AUTO_NODE_NAME)]

\* A plausible slip: the batch ends at the first object that has no matching tree
RECURSIVE InjectAllStopOnMismatch(_, _)
InjectAllStopOnMismatch(trs, objs) ==
    IF objs = <<>> THEN trs
    ELSE IF find_modifier_and_tree(Head(objs))[2] = None THEN trs
    ELSE InjectAllStopOnMismatch(inject_curve_to_mesh(trs, Head(objs)), Tail(objs))

\* `for obj in objs: inject_curve_to_mesh(obj)` (lines 260, 276)
RECURSIVE InjectAll(_, _)
InjectAll(trs, objs) ==
    IF objs = <<>> THEN trs
    ELSE InjectAll(inject_curve_to_mesh(trs, Head(objs)), Tail(objs))

\* `for obj in objs: remove_curve_to_mesh(obj)` (lines 257, 358)
RECURSIVE RemoveAll(_, _)
RemoveAll(trs, objs) ==
    IF objs = <<>> THEN trs
    ELSE RemoveAll(remove_curve_to_mesh(trs, Head(objs)), Tail(objs))

-----------------------------------------------------------------------------
(* Numbers: rationals <<num, den>>, den > 0, in lowest terms *)

RECURSIVE GCD(_, _)
GCD(a, b) == IF b = 0 THEN a ELSE GCD(b, a % b)

Abs(n) == IF n < 0 THEN -n ELSE n

Rat(n, d) ==
    LET s == IF d < 0 THEN -1 ELSE 1
        g == GCD(Abs(n), Abs(d))
    IN  <<(s * n) \div g, (s * d) \div g>>

RLe(a, b) == a[1] * b[2] <= b[1] * a[2]
RLt(a, b) == a[1] * b[2] < b[1] * a[2]
RSub(a, b) == Rat(a[1] * b[2] - b[1] * a[2], a[2] * b[2])
RMul(a, b) == Rat(a[1] * b[1], a[2] * b[2])
RDiv(a, b) == Rat(a[1] * b[2], a[2] * b[1])
RMin(a, b) == IF RLe(a, b) THEN a ELSE b
RMax(a, b) == IF RLe(a, b) THEN b ELSE a
RFloor(a) == a[1] \div a[2]

Zero == <<0, 1>>
One == <<1, 1>>

-----------------------------------------------------------------------------
(* Scene configuration, lines 340-350, and what the viewport gives a frame *)

Config(thickness, top, grad, limit) ==
    [sd_cgraph_thickness |-> thickness, sd_cgraph_always_on_top |-> top,
     sd_cgraph_use_gradient |-> grad, sd_cgraph_gradient_max |-> limit]

\* the defaults register() declares
RegisteredDefaults == Config(<<2, 1>>, TRUE, FALSE, <<1, 10>>)

\* the defaults of the getattr calls of lines 112-128, used when the properties are
\* not attached
GetattrDefaults == Config(<<2, 1>>, TRUE, FALSE, <<1, 1>>)

\* thickness within [1, 10], gradient limit >= 0.0001; the limit is only read in
\* gradient mode, so it is varied there
Thicknesses == {<<1, 1>>, <<3, 2>>, <<3, 1>>}
Limits == {<<1, 10000>>, <<1, 1>>}
Configs ==
    {Config(t, top, TRUE, l) : t \in Thicknesses, top \in BOOLEAN, l \in Limits}
    \cup {Config(t, top, FALSE, <<1, 10>>) : t \in Thicknesses, top \in BOOLEAN}

\* Evaluated meshes: vertex coordinates (along one axis) and edges as vertex index
\* pairs.  Mesh 1 has no edge, 2 is two disjoint segments (of length 2 and 0),
\* 3 a closed chain, 4 a segment (of length 1) next to an open chain.
Mesh(verts, edges) == [vertices |-> verts, edges |-> edges]

Meshes == <<
    Mesh(<<0>>, <<>>),
    Mesh(<<0, 2, 5, 5>>, << <<1, 2>>, <<3, 4>> >>),
    Mesh(<<0, 1, 2>>, << <<1, 2>>, <<2, 3>>, <<3, 1>> >>),
    Mesh(<<0, 1, 0, 1, 2>>, << <<1, 2>>, <<3, 4>>, <<4, 5>> >>) >>

\* per object, what the viewport gives this frame: whether visible_get() holds,
\* whether to_mesh() raises RuntimeError, and the index of the evaluated mesh
Hidden == [visible |-> FALSE, raises |-> FALSE, mesh |-> 1]
Failing == [visible |-> TRUE, raises |-> TRUE, mesh |-> 1]
Shown(m) == [visible |-> TRUE, raises |-> FALSE, mesh |-> m]
ViewStates == {Hidden, Failing} \cup {Shown(m) : m \in DOMAIN Meshes}

GpuStates == {[width |-> <<1, 1>>, depth |-> "LESS_EQUAL"],
              [width |-> <<5, 1>>, depth |-> "ALWAYS"]}

NoFrame == [ran |-> FALSE]

-----------------------------------------------------------------------------
(* Helper functions, lines 25-39 *)

\* Lines 25-30: hue = (1 - value) * 0.66 at full saturation and value, converted
\* to RGB; the host clamps the hue into [0, 1]
get_heatmap_color(value, alpha) ==
    LET raw == RMul(RSub(One, value), <<33, 50>>)
        hue == RMax(Zero, RMin(One, raw))
        h6 == RMul(hue, <<6, 1>>)
        i == RFloor(h6) % 6
        f == RSub(h6, <<RFloor(h6), 1>>)
        q == RSub(One, f)
        rgb == CASE i = 0 -> <<One, f, Zero>>
                 [] i = 1 -> <<q, One, Zero>>
                 [] i = 2 -> <<Zero, One, f>>
                 [] i = 3 -> <<Zero, q, One>>
                 [] i = 4 -> <<f, Zero, One>>
                 [] OTHER -> <<One, Zero, q>>
    IN  [kind |-> "heat", value |-> value, rgba |-> <<rgb[1], rgb[2], rgb[3], alpha>>]

\* A plausible slip: the candidate keys tried in alphabetical order
candidate_keys_sorted == <<"Graph Scale", "GraphScale", "Input_3", "Scale">>

candidate_keys == <<"Graph Scale", "Input_3", "GraphScale", "Scale">>

\* Lines 32-39: the first candidate key that holds a number, else 1.0
get_modifier_scale_value(props) ==
    LET ok(i) == /\ candidate_keys[i] \in DOMAIN props
                 /\ props[candidate_keys[i]].num
    IN  IF \E i \in DOMAIN candidate_keys : ok(i)
        THEN props[candidate_keys[CHOOSE i \in DOMAIN candidate_keys :
                       ok(i) /\ \A j \in 1..(i - 1) : ~ok(j)]].val
        ELSE One

\* What mod.get(key) can hold: a positive number, zero, a negative number, or
\* something that is not a number
ScaleValues == {PNum(2, 1), PNum(0, 1), PNum(-2, 1), PText}

\* The custom properties a modifier can carry: any of the candidate keys, each
\* with any of the values, next to a property the reader never asks for
PropSets ==
    UNION {{[k \in S \cup {"Resolution"} |->
                IF k = "Resolution" THEN PNum(7, 1) ELSE f[k]] : f \in [S -> ScaleValues]}
           : S \in SUBSET {candidate_keys[i] : i \in DOMAIN candidate_keys}}

-----------------------------------------------------------------------------
(* The draw callback, lines 105-236 *)

\* getattr(scene, name, default): the attribute exists while the properties are attached
SceneConfig == IF loaded THEN cfg ELSE GetattrDefaults

\* Lines 162-165
RECURSIVE CountEdges(_, _)
CountEdges(counts, edges) ==
    IF edges = <<>> THEN counts
    ELSE LET e == Head(edges)
             c1 == [counts EXCEPT ![e[1]] = @ + 1]
             c2 == [c1 EXCEPT ![e[2]] = @ + 1]
         IN  CountEdges(c2, Tail(edges))

\* A plausible slip: one endpoint of degree 1 is taken to be enough
is_isolated_hair_either(counts, e) == counts[e[1]] = 1 \/ counts[e[2]] = 1

\* Line 183
is_isolated_hair(counts, e) == counts[e[1]] = 1 /\ counts[e[2]] = 1

\* A plausible slip: the length is not normalised by the graph scale
EdgeIntensityNoScale(v1, v2, scale) ==
    RMin(RDiv(<<Abs(v1 - v2), 1>>, SceneConfig.sd_cgraph_gradient_max), One)

\* Lines 187-190: the intensity of an isolated edge in gradient mode
EdgeIntensity(v1, v2, scale) ==
    LET visual_length == <<Abs(v1 - v2), 1>>
        real_curvature_val == RDiv(visual_length, scale)
    IN  RMin(RDiv(real_curvature_val, SceneConfig.sd_cgraph_gradient_max), One)

\* Lines 193-199: an isolated edge goes to the heatmap batch with its colour
AddHair(b, e, v1, v2, color) ==
    [b EXCEPT !.heatmap_pos = @ \o <<v1, v2>>,
              !.heatmap_col = @ \o <<color, color>>,
              !.heatmap_edges = Append(@, e)]

\* Lines 201-205: any other edge goes to the connector batch
AddConnector(b, e, v1, v2) ==
    [b EXCEPT !.connector_pos = @ \o <<v1, v2>>,
              !.connector_edges = Append(@, e)]

\* Lines 176-205: one edge
ClassifyEdge(b, e, v1, v2, counts, scale, o) ==
    IF is_isolated_hair(counts, e)
    THEN IF SceneConfig.sd_cgraph_use_gradient
         THEN AddHair(b, e, v1, v2, get_heatmap_color(EdgeIntensity(v1, v2, scale), One))
         ELSE AddHair(b, e, v1, v2, [kind |-> "base", obj |-> o])
    ELSE AddConnector(b, e, v1, v2)

\* Lines 175-205: the batches of one object, edge by edge
RECURSIVE Classify(_, _, _, _, _, _)
Classify(b, edges, counts, co, scale, o) ==
    IF edges = <<>> THEN b
    ELSE Classify(ClassifyEdge(b, Head(edges), co[Head(edges)[1]], co[Head(edges)[2]],
                               counts, scale, o),
                  Tail(edges), counts, co, scale, o)

EmptyBatches == [heatmap_pos |-> <<>>, heatmap_col |-> <<>>, heatmap_edges |-> <<>>,
                 connector_pos |-> <<>>, connector_edges |-> <<>>]

\* Lines 209-213: the heatmap batch is drawn at the line width in force
DrawHeatmap(st, o, b) ==
    IF b.heatmap_pos = <<>> THEN st
    ELSE [st EXCEPT !.draws = Append(@,
             [obj |-> o, batch |-> "heatmap", pos |-> b.heatmap_pos,
              col |-> b.heatmap_col, edges |-> b.heatmap_edges,
              width |-> st.width, depth |-> st.depth])]

\* A plausible slip: the width is not restored after the connector batch (line 229)
DrawConnectorsNoRestore(st, o, b, prev_width) ==
    IF b.connector_pos = <<>> THEN st
    ELSE [width |-> RMax(One, RSub(prev_width, One)),
          depth |-> st.depth,
          draws |-> Append(st.draws,
             [obj |-> o, batch |-> "connector", pos |-> b.connector_pos,
              col |-> <<>>, edges |-> b.connector_edges,
              width |-> RMax(One, RSub(prev_width, One)), depth |-> st.depth])]

\* Lines 216-229: the connector batch is drawn one unit thinner, at least 1.0, and
\* the width is set back
DrawConnectors(st, o, b, prev_width) ==
    IF b.connector_pos = <<>> THEN st
    ELSE [width |-> prev_width,
          depth |-> st.depth,
          draws |-> Append(st.draws,
             [obj |-> o, batch |-> "connector", pos |-> b.connector_pos,
              col |-> <<>>, edges |-> b.connector_edges,
              width |-> RMax(One, RSub(prev_width, One)), depth |-> st.depth])]

\* Lines 209-229
DrawBatches(st, o, b) ==
    DrawConnectors(DrawHeatmap(st, o, b), o, b, SceneConfig.sd_cgraph_thickness)

\* Lines 153-154: world_mat @ v.co
WorldCo(o, mesh) ==
    [i \in DOMAIN mesh.vertices |-> ObjKind(o).world_scale * mesh.vertices[i]]

\* Lines 152-229 for one object whose mesh was evaluated: st is [width, depth, draws]
DrawMesh(st, o, mesh, scale) ==
    IF Len(mesh.edges) = 0 THEN st
    ELSE DrawBatches(st, o,
             Classify(EmptyBatches, mesh.edges,
                      CountEdges([i \in DOMAIN mesh.vertices |-> 0], mesh.edges),
                      WorldCo(o, mesh), scale, o))

\* Line 146
ClampScale(raw) == IF raw[1] = 0 THEN <<1, 1000>> ELSE raw

\* A plausible slip: a failed evaluation ends the loop instead of skipping the object
RECURSIVE DrawObjectsStopOnFailure(_, _)
DrawObjectsStopOnFailure(st, objs) ==
    IF objs = <<>> THEN st
    ELSE IF ~view[Head(objs)].visible
            \/ ObjKind(Head(objs)).type \notin {"MESH", "CURVE"}
            \/ find_modifier(Head(objs)) = None
    THEN DrawObjectsStopOnFailure(st, Tail(objs))
    ELSE IF view[Head(objs)].raises THEN st
    ELSE DrawObjectsStopOnFailure(
             DrawMesh(st, Head(objs), Meshes[view[Head(objs)].mesh],
                 ClampScale(get_modifier_scale_value(
                     ObjKind(Head(objs)).modifiers[find_modifier(Head(objs))].props))),
             Tail(objs))

\* Lines 135-231: one object of the main loop
DrawObject(st, o) ==
    IF ~view[o].visible \/ ObjKind(o).type \notin {"MESH", "CURVE"} THEN st
    ELSE IF find_modifier(o) = None THEN st
    ELSE IF view[o].raises THEN st
    ELSE DrawMesh(st, o, Meshes[view[o].mesh],
             ClampScale(get_modifier_scale_value(
                 ObjKind(o).modifiers[find_modifier(o)].props)))

\* Lines 134-231: the main loop over scene.objects
RECURSIVE DrawObjects(_, _)
DrawObjects(st, objs) ==
    IF objs = <<>> THEN st
    ELSE DrawObjects(DrawObject(st, Head(objs)), Tail(objs))

\* Lines 112-116
GpuSetup ==
    [width |-> SceneConfig.sd_cgraph_thickness,
     depth |-> IF SceneConfig.sd_cgraph_always_on_top THEN "NONE" ELSE "LESS_EQUAL",
     draws |-> <<>>]

\* A plausible slip: the depth test is left as the frame set it
GpuRestoreWidthOnly(st) == [st EXCEPT !.width = One]

\* Lines 233-236
GpuRestore(st) ==
    [width |-> One,
     depth |-> IF SceneConfig.sd_cgraph_always_on_top THEN "LESS_EQUAL" ELSE st.depth,
     draws |-> st.draws]

\* Lines 111-236: everything after the scene and depsgraph were acquired
DrawFrame == GpuRestore(DrawObjects(GpuSetup, SetToSeq(scene)))

-----------------------------------------------------------------------------
(* Operations *)

Op(name) == <<[op |-> name, obj |-> None]>>
LastOp == hist[1].op

\* a Toggle also records whether the operation before it was a Toggle
ToggleOp == <<[op |-> "Toggle", obj |-> None, twice |-> LastOp = "Toggle"]>>

\* a Refresh also records whether it put a bridging node anywhere
RefreshOp ==
    <<[op |-> "Refresh", obj |-> None,
       injected |-> is_drawing_active /\ InjectAll(trees, SetToSeq(scene)) # trees]>>

\* SpaceView3D.draw_handler_add: a handle the viewport does not hold yet
NewHandle == CHOOSE h \in Handles \ registered : \A k \in Handles \ registered : h <= k

\* SpaceView3D.draw_handler_remove(handle, 'WINDOW') inside try/except: a handle
\* the viewport does not hold raises, and the error is dropped
HandlerRemove(h) == registered \ {h}

\* A plausible slip: the disable branch forgets the handle and drops the callback
\* registration without clearing it from the viewport
ToggleLeaksHandler ==
    /\ loaded
    /\ IF is_drawing_active
       THEN /\ registered' = registered
            /\ draw_handler' = None
            /\ is_drawing_active' = FALSE
            /\ trees' = RemoveAll(trees, SetToSeq(scene))
       ELSE /\ Handles \ registered # {}
            /\ trees' = InjectAll(trees, SetToSeq(scene))
            /\ IF draw_handler = None
               THEN /\ draw_handler' = NewHandle
                    /\ registered' = registered \cup {NewHandle}
               ELSE UNCHANGED <<draw_handler, registered>>
            /\ is_drawing_active' = TRUE
    /\ frame' = NoFrame
    /\ hist' = ToggleOp
    /\ UNCHANGED <<loaded, scene, cfg, view, gpu>>

\* A plausible slip: the disable branch clears the flag and the handle but leaves
\* the bridging nodes in place
ToggleKeepsNodes ==
    /\ loaded
    /\ IF is_drawing_active
       THEN /\ registered' = IF draw_handler # None THEN HandlerRemove(draw_handler)
                             ELSE registered
            /\ draw_handler' = None
            /\ is_drawing_active' = FALSE
            /\ trees' = trees
       ELSE /\ Handles \ registered # {}
            /\ trees' = InjectAll(trees, SetToSeq(scene))
            /\ IF draw_handler = None
               THEN /\ draw_handler' = NewHandle
                    /\ registered' = registered \cup {NewHandle}
               ELSE UNCHANGED <<draw_handler, registered>>
            /\ is_drawing_active' = TRUE
    /\ frame' = NoFrame
    /\ hist' = ToggleOp
    /\ UNCHANGED <<loaded, scene, cfg, view, gpu>>

\* Lines 247-269: SNA_OT_ToggleRenderer.execute
ToggleRenderer_execute ==
    /\ loaded
    /\ IF is_drawing_active
       THEN /\ registered' = IF draw_handler # None THEN HandlerRemove(draw_handler)
                             ELSE registered
            /\ draw_handler' = None
            /\ is_drawing_active' = FALSE
            /\ trees' = RemoveAll(trees, SetToSeq(scene))
       ELSE /\ Handles \ registered # {}
            /\ trees' = InjectAll(trees, SetToSeq(scene))
            /\ IF draw_handler = None
               THEN /\ draw_handler' = NewHandle
                    /\ registered' = registered \cup {NewHandle}
               ELSE UNCHANGED <<draw_handler, registered>>
            /\ is_drawing_active' = TRUE
    /\ frame' = NoFrame
    /\ hist' = ToggleOp
    /\ UNCHANGED <<loaded, scene, cfg, view, gpu>>

\* A plausible slip: the gate on the active flag of line 275 left out
RefreshUngated ==
    /\ loaded
    /\ trees' = InjectAll(trees, SetToSeq(scene))
    /\ frame' = NoFrame
    /\ hist' = Op("Refresh")
    /\ UNCHANGED <<draw_handler, is_drawing_active, registered, loaded, scene,
                   cfg, view, gpu>>

\* A plausible slip: Refresh also marks the overlay active
RefreshActivates ==
    /\ loaded
    /\ trees' = IF is_drawing_active THEN InjectAll(trees, SetToSeq(scene)) ELSE trees
    /\ is_drawing_active' = TRUE
    /\ frame' = NoFrame
    /\ hist' = Op("Refresh")
    /\ UNCHANGED <<draw_handler, registered, loaded, scene, cfg, view, gpu>>

\* Lines 274-278: SNA_OT_RefreshNodes.execute
RefreshNodes_execute ==
    /\ loaded
    /\ trees' = IF is_drawing_active THEN InjectAll(trees, SetToSeq(scene)) ELSE trees
    /\ frame' = NoFrame
    /\ hist' = RefreshOp
    /\ UNCHANGED <<draw_handler, is_drawing_active, registered, loaded, scene,
                   cfg, view, gpu>>

\* Lines 336-352: the properties are attached with their defaults and the classes
\* registered; values already stored in the scene are kept
register ==
    /\ ~loaded
    /\ loaded' = TRUE
    /\ frame' = NoFrame
    /\ hist' = Op("register")
    /\ UNCHANGED <<draw_handler, is_drawing_active, registered, scene, trees,
                   cfg, view, gpu>>

\* Lines 354-372
unregister ==
    /\ loaded
    /\ trees' = IF is_drawing_active THEN RemoveAll(trees, SetToSeq(Objs)) ELSE trees
    /\ registered' = IF draw_handler # None THEN HandlerRemove(draw_handler)
                     ELSE registered
    /\ draw_handler' = None
    /\ is_drawing_active' = FALSE
    /\ loaded' = FALSE
    /\ frame' = NoFrame
    /\ hist' = Op("unregister")
    /\ UNCHANGED <<scene, cfg, view, gpu>>

\* The user links an object of the data store to the scene, or unlinks one
SceneLink(o) ==
    /\ o \notin scene
    /\ scene' = scene \cup {o}
    /\ frame' = NoFrame
    /\ hist' = Op("link")
    /\ UNCHANGED <<draw_handler, is_drawing_active, registered, loaded, trees,
                   cfg, view, gpu>>

SceneUnlink(o) ==
    /\ o \in scene
    /\ scene' = scene \ {o}
    /\ frame' = NoFrame
    /\ hist' = Op("unlink")
    /\ UNCHANGED <<draw_handler, is_drawing_active, registered, loaded, trees,
                   cfg, view, gpu>>

\* Lines 105-236: the viewport redraws and calls the registered callback; ok says
\* whether the scene and the dependency graph could be acquired (lines 106-109)
draw_lines_callback(ok) ==
    /\ registered # {}
    /\ IF ok
       THEN /\ gpu' = [width |-> DrawFrame.width, depth |-> DrawFrame.depth]
            /\ frame' = [ran |-> TRUE, aborted |-> FALSE, before |-> gpu,
                         draws |-> DrawFrame.draws]
       ELSE /\ gpu' = gpu
            /\ frame' = [ran |-> TRUE, aborted |-> TRUE, before |-> gpu, draws |-> <<>>]
    /\ hist' = Op("Draw")
    /\ UNCHANGED <<draw_handler, is_drawing_active, registered, loaded, scene,
                   trees, cfg, view>>

\* The objects the callback can get as far as evaluating
Drawable(o) == ObjKind(o).type \in {"MESH", "CURVE"} /\ find_modifier(o) # None

\* The viewport state of a drawable object changes: hidden, shown, re-evaluated
Evaluate(o, v) ==
    /\ Drawable(o)
    /\ v # view[o]
    /\ view' = [view EXCEPT ![o] = v]
    /\ frame' = NoFrame
    /\ hist' = Op("Evaluate")
    /\ UNCHANGED <<draw_handler, is_drawing_active, registered, loaded, scene,
                   trees, cfg, gpu>>

\* The user edits the settings in the panel (lines 302-332)
SetConfig(c) ==
    /\ loaded
    /\ c # cfg
    /\ cfg' = c
    /\ frame' = NoFrame
    /\ hist' = Op("SetConfig")
    /\ UNCHANGED <<draw_handler, is_drawing_active, registered, loaded, scene,
                   trees, view, gpu>>

\* The host draws something of its own and leaves the GPU state as it likes
HostGpu(g) ==
    /\ g # gpu
    /\ gpu' = g
    /\ frame' = NoFrame
    /\ hist' = Op("HostGpu")
    /\ UNCHANGED <<draw_handler, is_drawing_active, registered, loaded, scene,
                   trees, cfg, view>>

\* inject_curve_to_mesh / remove_curve_to_mesh called for one object; the history
\* keeps the trees as they were before each of the last two calls
TreeOp(name, o) ==
    <<[op |-> name, obj |-> o, pre |-> trees]>> \o
        (IF hist[1].op \in {"Inject", "Remove"} THEN <<hist[1]>> ELSE <<>>)

InjectStep(o) ==
    /\ trees' = inject_curve_to_mesh(trees, o)
    /\ frame' = NoFrame
    /\ hist' = TreeOp("Inject", o)
    /\ UNCHANGED <<draw_handler, is_drawing_active, registered, loaded, scene,
                   cfg, view, gpu>>

RemoveStep(o) ==
    /\ trees' = remove_curve_to_mesh(trees, o)
    /\ frame' = NoFrame
    /\ hist' = TreeOp("Remove", o)
    /\ UNCHANGED <<draw_handler, is_drawing_active, registered, loaded, scene,
                   cfg, view, gpu>>

\* Lines 32-39 called on a modifier with the given custom properties
ReadScale(props) ==
    /\ frame' = [ran |-> FALSE, props |-> props,
                 result |-> get_modifier_scale_value(props)]
    /\ hist' = Op("ReadScale")
    /\ UNCHANGED <<draw_handler, is_drawing_active, registered, loaded, scene,
                   trees, cfg, view, gpu>>

\* Lines 146 and 187-191 for one isolated edge between the world coordinates v1
\* and v2, with the graph scale that was read last
ShadeEdge(v1, v2) ==
    /\ LastOp \in {"ReadScale", "ShadeEdge"}
    /\ frame' = [ran |-> FALSE, result |-> frame.result, v1 |-> v1, v2 |-> v2,
                 color |-> get_heatmap_color(
                               EdgeIntensity(v1, v2, ClampScale(frame.result)), One)]
    /\ hist' = Op("ShadeEdge")
    /\ UNCHANGED <<draw_handler, is_drawing_active, registered, loaded, scene,
                   trees, cfg, view, gpu>>

-----------------------------------------------------------------------------
(* Specifications *)

\* The view every specification starts from: the two kinds that are never drawn
\* are visible with a mesh, so that it is their type or modifiers that skip them
InitView == [o \in Objs |-> IF Drawable(o) THEN Shown(4) ELSE Shown(2)]

InitCommon ==
    /\ draw_handler = None
    /\ is_drawing_active = FALSE
    /\ registered = {}
    /\ loaded = TRUE
    /\ scene = Objs
    /\ cfg = RegisteredDefaults
    /\ view = InitView
    /\ gpu = [width |-> <<1, 1>>, depth |-> "LESS_EQUAL"]
    /\ frame = NoFrame
    /\ hist = Op("Init")

\* Lifecycle: the extension was just registered; the node groups of the file are
\* of any of the lifecycle shapes
Init ==
    /\ InitCommon
    /\ trees \in [TreeIds -> LifecycleShapes]
    /\ trees[3] = ShapeLinear

Next ==
    \/ ToggleRenderer_execute
    \/ RefreshNodes_execute
    \/ unregister
    \/ register
    \/ \E o \in Objs : SceneLink(o)
    \/ \E o \in Objs : SceneUnlink(o)
    \/ \E ok \in BOOLEAN : draw_lines_callback(ok)

Spec == Init /\ [][Next]_vars

\* Injection manager: Inject and Remove called object by object on trees of every
\* shape, between the lifecycle operations
InitTree ==
    /\ InitCommon
    /\ trees \in [TreeIds -> AllShapes]
    /\ trees[3] = ShapeLinear

NextTree ==
    \/ \E o \in Objs : InjectStep(o)
    \/ \E o \in Objs : RemoveStep(o)
    \/ ToggleRenderer_execute
    \/ RefreshNodes_execute
    \/ unregister
    \/ register

SpecTree == InitTree /\ [][NextTree]_vars

\* Renderer: the overlay is on; settings, viewport state and host GPU state vary
InitDraw ==
    /\ draw_handler = 1
    /\ is_drawing_active = TRUE
    /\ registered = {1}
    /\ loaded = TRUE
    /\ scene = Objs
    /\ trees = InjectAll([t \in TreeIds |-> ShapeLinear], SetToSeq(Objs))
    /\ cfg = RegisteredDefaults
    /\ view = InitView
    /\ gpu = [width |-> <<1, 1>>, depth |-> "LESS_EQUAL"]
    /\ frame = NoFrame
    /\ hist = <<[op |-> "Toggle", obj |-> None, twice |-> FALSE]>>

NextDraw ==
    \/ \E ok \in BOOLEAN : draw_lines_callback(ok)
    \/ \E o \in Objs, v \in ViewStates : Evaluate(o, v)
    \/ \E c \in Configs : SetConfig(c)
    \/ \E g \in GpuStates : HostGpu(g)

SpecDraw == InitDraw /\ [][NextDraw]_vars

\* Shading: the parameter reader on modifiers with any custom properties, and
\* the intensity of one isolated edge, in gradient mode with either limit
InitShade ==
    /\ draw_handler = None
    /\ is_drawing_active = FALSE
    /\ registered = {}
    /\ loaded = TRUE
    /\ scene = Objs
    /\ trees = [t \in TreeIds |-> ShapeLinear]
    /\ cfg \in {Config(<<2, 1>>, TRUE, TRUE, l) : l \in Limits}
    /\ view = InitView
    /\ gpu = [width |-> <<1, 1>>, depth |-> "LESS_EQUAL"]
    /\ frame = NoFrame
    /\ hist = Op("Init")

NextShade ==
    \/ \E props \in PropSets : ReadScale(props)
    \/ \E v1 \in 0..MaxCoord, v2 \in 0..MaxCoord : ShadeEdge(v1, v2)

SpecShade == InitShade /\ [][NextShade]_vars

-----------------------------------------------------------------------------
(* Properties *)

\* the node tree of an object: the one the locator returns for it
LocatedTree(o) == find_modifier_and_tree(o)[2]

\* every node tree some modifier of the object evaluates
TreesOf(o) ==
    {ObjKind(o).modifiers[i].node_group : i \in DOMAIN ObjKind(o).modifiers} \ {None}

\* the bridging nodes of a tree, whatever number the host appended to the name
Bridges(tree) ==
    {i \in DOMAIN tree.nodes : tree.nodes[i].name[1] = AUTO_NODE_NAME[1]}

\* Inject would act on the tree: no bridging node, and an output node whose
\* geometry input is linked
Injectable(tree) ==
    /\ Bridges(tree) = {}
    /\ FindOutputNode(tree) # None
    /\ LinksInto(tree, tree.nodes[FindOutputNode(tree)].name, "in0") # {}

\* one source linked to the geometry input of the only output node, nothing else
IsLinearChain(tree) ==
    /\ Bridges(tree) = {}
    /\ Cardinality({i \in DOMAIN tree.nodes : tree.nodes[i].type = "GROUP_OUTPUT"}) = 1
    /\ Cardinality(tree.links) = 1
    /\ \A l \in tree.links :
           l.tn = tree.nodes[FindOutputNode(tree)].name /\ l.ts = "in0"

ToggledOnThenOff ==
    LastOp = "Toggle" /\ hist[1].twice /\ ~is_drawing_active

\* C1: a Toggle from Inactive followed at once by a second Toggle leaves the
\* overlay Inactive, the draw handle cleared and no bridging node in the located
\* node tree of any object of the scene.
C1_ToggleOnOffClean ==
    ToggledOnThenOff =>
        /\ ~is_drawing_active
        /\ draw_handler = None
        /\ \A o \in scene :
               LocatedTree(o) # None => Bridges(trees[LocatedTree(o)]) = {}

\* the two Toggles ran over a scene object whose tree takes the bridging node
C1_Witness ==
    /\ ToggledOnThenOff
    /\ \E o \in scene : LocatedTree(o) # None /\ Injectable(trees[LocatedTree(o)])

\* C2: after unregister no draw callback is registered and the located node tree
\* of no object of the data store contains the bridging node.
C2_UnloadLeavesNothing ==
    LastOp = "unregister" =>
        /\ registered = {}
        /\ \A o \in Objs :
               LocatedTree(o) # None => Bridges(trees[LocatedTree(o)]) = {}

SameInjectTwice ==
    /\ Len(hist) = 2
    /\ hist[1].op = "Inject"
    /\ hist[2].op = "Inject"
    /\ hist[1].obj = hist[2].obj

\* C3: a second Inject for the same object changes nothing, and leaves exactly
\* one bridging node when the first call injected one; every node tree holds at
\* most one bridging node in every reachable state.
C3_InjectIdempotent ==
    /\ \A t \in TreeIds : Cardinality(Bridges(trees[t])) <= 1
    /\ SameInjectTwice =>
           /\ trees = hist[1].pre
           /\ hist[1].pre # hist[2].pre =>
                  Cardinality(Bridges(trees[LocatedTree(hist[1].obj)])) = 1

\* the first of two Injects for one object put a bridging node into its tree
C3_Witness ==
    /\ SameInjectTwice
    /\ hist[1].pre # hist[2].pre
    /\ Bridges(trees[LocatedTree(hist[1].obj)]) # {}

InjectThenRemove ==
    /\ Len(hist) = 2
    /\ hist[1].op = "Remove"
    /\ hist[2].op = "Inject"
    /\ hist[1].obj = hist[2].obj
    /\ LocatedTree(hist[1].obj) # None

\* C4: Inject then Remove for an object whose tree is a single linear chain gives
\* back the trees as they were: no bridging node, and the same links.
C4_InjectRemoveRestores ==
    (InjectThenRemove /\ IsLinearChain(hist[2].pre[LocatedTree(hist[1].obj)])) =>
        /\ Bridges(trees[LocatedTree(hist[1].obj)]) = {}
        /\ trees[LocatedTree(hist[1].obj)].links
               = hist[2].pre[LocatedTree(hist[1].obj)].links
        /\ trees = hist[2].pre

\* Inject put the bridging node into a linear chain, and Remove followed
C4_Witness ==
    /\ InjectThenRemove
    /\ IsLinearChain(hist[2].pre[LocatedTree(hist[1].obj)])
    /\ Bridges(hist[1].pre[LocatedTree(hist[1].obj)]) # {}

\* C5: Remove for an object with no matching tree, or whose tree holds no
\* bridging node, leaves the nodes and links of every tree as they were.
C5_RemoveWithoutBridgeNoOp ==
    (/\ LastOp = "Remove"
     /\ \/ LocatedTree(hist[1].obj) = None
        \/ ~HasNode(hist[1].pre[LocatedTree(hist[1].obj)], AUTO_NODE_NAME))
    => trees = hist[1].pre

\* Remove ran on a located tree that has nodes and links but no bridging node
C5_Witness ==
    /\ LastOp = "Remove"
    /\ LocatedTree(hist[1].obj) # None
    /\ ~HasNode(hist[1].pre[LocatedTree(hist[1].obj)], AUTO_NODE_NAME)
    /\ hist[1].pre[LocatedTree(hist[1].obj)].links # {}

\* C6: a Refresh while the overlay is Inactive changes no node tree, nor the
\* active flag, nor the draw handle.
C6_RefreshInactiveNoOp ==
    [][(LastOp' = "Refresh" /\ ~is_drawing_active) =>
           /\ trees' = trees
           /\ is_drawing_active' = is_drawing_active
           /\ draw_handler' = draw_handler]_vars

\* Refresh ran while Inactive with a scene object whose tree Inject would change
C6_Witness ==
    /\ LastOp = "Refresh"
    /\ ~is_drawing_active
    /\ \E o \in scene : LocatedTree(o) # None /\ Injectable(trees[LocatedTree(o)])

\* C7: the overlay starts Inactive; Toggle flips the active flag, Refresh keeps
\* it, unregister clears it, and no other operation (the draw callback included)
\* changes it.
C7_TwoStateMachine ==
    /\ ~is_drawing_active
    /\ [][/\ LastOp' = "Toggle" => is_drawing_active' = ~is_drawing_active
          /\ LastOp' = "Refresh" => is_drawing_active' = is_drawing_active
          /\ LastOp' = "unregister" => ~is_drawing_active'
          /\ LastOp' \notin {"Toggle", "unregister"} =>
                 is_drawing_active' = is_drawing_active]_vars

\* Refresh ran while Active and the overlay is still Active
C7_Witness == LastOp = "Refresh" /\ is_drawing_active

\* C8: at most one draw callback is registered, and the handle is set exactly
\* when the active flag is.
C8_OneHandler ==
    /\ Cardinality(registered) <= 1
    /\ (draw_handler # None) <=> is_drawing_active

\* the overlay was disabled and enabled again: one registration, the handle's
C8_Witness ==
    /\ LastOp = "Toggle"
    /\ hist[1].twice
    /\ is_drawing_active
    /\ registered = {draw_handler}

\* C9: a draw invocation that aborts leaves the GPU state as it found it; any
\* other ends with the depth test LESS_EQUAL and the line width 1.0.
C9_GpuStateRestored ==
    frame.ran =>
        IF frame.aborted THEN gpu = frame.before
        ELSE gpu.depth = "LESS_EQUAL" /\ gpu.width = One

\* a frame with always-on-top set that drew something while one object was
\* hidden and the evaluation of another failed
C9_Witness ==
    /\ frame.ran
    /\ ~frame.aborted
    /\ cfg.sd_cgraph_always_on_top
    /\ frame.draws # <<>>
    /\ \E o \in scene : view[o] = Failing
    /\ \E o \in scene : view[o] = Hidden

\* the objects whose edges a completed frame classifies
Drawn(o) ==
    /\ o \in scene
    /\ Drawable(o)
    /\ view[o].visible
    /\ ~view[o].raises

EdgesOf(o) == Meshes[view[o].mesh].edges

\* degree of a vertex in the edge-degree table: the edges that touch it
Degree(o, v) ==
    Cardinality({i \in DOMAIN EdgesOf(o) : v \in {EdgesOf(o)[i][1], EdgesOf(o)[i][2]}})

Isolated(o, e) == Degree(o, e[1]) = 1 /\ Degree(o, e[2]) = 1

\* the edges of one batch of one object in the frame, empty when none was drawn
BatchEdges(o, kind) ==
    LET hits == {i \in DOMAIN frame.draws :
                     frame.draws[i].obj = o /\ frame.draws[i].batch = kind}
    IN  IF hits = {} THEN <<>> ELSE frame.draws[CHOOSE i \in hits : TRUE].edges

Range(s) == {s[i] : i \in DOMAIN s}

\* C10: in a completed frame, for every drawn object, the heatmap batch holds
\* exactly the edges whose two endpoints have degree 1 and the connector batch
\* exactly the others, each edge once; with every vertex of degree 2 no edge is
\* isolated, with every vertex of degree 1 no edge is a connector.
C10_EdgeClassification ==
    (frame.ran /\ ~frame.aborted) =>
        \A o \in Objs : Drawn(o) =>
            /\ Range(BatchEdges(o, "heatmap"))
                   = {e \in Range(EdgesOf(o)) : Isolated(o, e)}
            /\ Range(BatchEdges(o, "connector"))
                   = {e \in Range(EdgesOf(o)) : ~Isolated(o, e)}
            /\ Len(BatchEdges(o, "heatmap")) + Len(BatchEdges(o, "connector"))
                   = Len(EdgesOf(o))
            /\ (\A v \in DOMAIN Meshes[view[o].mesh].vertices : Degree(o, v) = 2)
                   => BatchEdges(o, "heatmap") = <<>>
            /\ (\A v \in DOMAIN Meshes[view[o].mesh].vertices : Degree(o, v) = 1)
                   => BatchEdges(o, "connector") = <<>>

\* a frame in gradient mode that drew a closed chain, a set of disjoint segments
\* and a mesh with edges of both classes
C10_Witness ==
    /\ frame.ran
    /\ ~frame.aborted
    /\ cfg.sd_cgraph_use_gradient
    /\ \E o \in Objs : Drawn(o) /\ view[o].mesh = 3 /\ BatchEdges(o, "connector") # <<>>
    /\ \E o \in Objs : Drawn(o) /\ view[o].mesh = 2 /\ BatchEdges(o, "heatmap") # <<>>
    /\ \E o \in Objs : /\ Drawn(o)
                       /\ BatchEdges(o, "heatmap") # <<>>
                       /\ BatchEdges(o, "connector") # <<>>

\* the candidate keys in the order of priority the reader is specified with
KeyPriority == <<"Graph Scale", "Input_3", "GraphScale", "Scale">>

\* the candidate keys, by priority index, that exist on the modifier read last,
\* and those of them that hold a number
KeysPresent == {i \in DOMAIN KeyPriority : KeyPriority[i] \in DOMAIN frame.props}
KeysNumeric == {i \in KeysPresent : frame.props[KeyPriority[i]].num}

\* C11: the parameter reader returns 1.0 when none of the four candidate keys
\* exists on the modifier (or none holds a number), and otherwise the value of the
\* first key, in the order Graph Scale, Input_3, GraphScale, Scale, that holds one.
C11_ScaleReader ==
    LastOp = "ReadScale" =>
        /\ KeysPresent = {} => frame.result = One
        /\ KeysNumeric = {} => frame.result = One
        /\ \A i \in KeysNumeric :
               (\A j \in KeysNumeric : i <= j) =>
                   frame.result = frame.props[KeyPriority[i]].val

\* the reader ran on a modifier where Input_3 and GraphScale hold different
\* numbers and Graph Scale is absent, and returned the value of Input_3
C11_Witness ==
    /\ LastOp = "ReadScale"
    /\ KeysNumeric = {2, 3}
    /\ KeysPresent = {2, 3}
    /\ frame.props["Input_3"].val # frame.props["GraphScale"].val
    /\ frame.result = frame.props["Input_3"].val

\* the graph scale of a drawn object: what the reader returns for its matching
\* modifier, with exactly 0 replaced by 0.001
GraphScaleOf(o) ==
    LET raw == get_modifier_scale_value(ObjKind(o).modifiers[find_modifier(o)].props)
    IN  IF raw = Zero THEN <<1, 1000>> ELSE raw

\* the world length of an edge of a drawn object
WorldLength(o, e) ==
    ObjKind(o).world_scale
        * Abs(Meshes[view[o].mesh].vertices[e[1]] - Meshes[view[o].mesh].vertices[e[2]])

HeatDraws == {i \in DOMAIN frame.draws : frame.draws[i].batch = "heatmap"}

\* C12: in gradient mode the colour of every isolated edge was made from the
\* intensity min((world length / graph scale) / gradient limit, 1.0), a graph
\* scale of 0 counting as 0.001; with graph scale 2, limit 1 and world length 2
\* the intensity is 1.0 and the colour is pure red.
C12_IsolatedEdgeIntensity ==
    (frame.ran /\ ~frame.aborted /\ cfg.sd_cgraph_use_gradient) =>
        \A i \in HeatDraws : \A k \in DOMAIN frame.draws[i].edges :
            LET o == frame.draws[i].obj
                e == frame.draws[i].edges[k]
                c == frame.draws[i].col[2 * k]
            IN  /\ frame.draws[i].col[2 * k - 1] = c
                /\ c.kind = "heat"
                /\ c.value = RMin(RDiv(RDiv(<<WorldLength(o, e), 1>>, GraphScaleOf(o)),
                                       cfg.sd_cgraph_gradient_max), One)
                /\ (/\ GraphScaleOf(o) = <<2, 1>>
                    /\ cfg.sd_cgraph_gradient_max = One
                    /\ WorldLength(o, e) = 2)
                   => c.value = One /\ c.rgba = <<One, Zero, Zero, One>>

\* a gradient frame with limit 1 that shaded an edge of world length 2 at graph
\* scale 2, an edge with an intensity strictly between 0 and 1, and an edge of
\* an object whose graph scale of 0 was replaced
C12_Witness ==
    /\ frame.ran
    /\ ~frame.aborted
    /\ cfg.sd_cgraph_use_gradient
    /\ cfg.sd_cgraph_gradient_max = One
    /\ \E i \in HeatDraws : \E k \in DOMAIN frame.draws[i].edges :
           /\ GraphScaleOf(frame.draws[i].obj) = <<2, 1>>
           /\ WorldLength(frame.draws[i].obj, frame.draws[i].edges[k]) = 2
           /\ frame.draws[i].col[2 * k].value = One
    /\ \E i \in HeatDraws : \E k \in DOMAIN frame.draws[i].edges :
           frame.draws[i].col[2 * k].value = <<1, 2>>
    /\ \E i \in HeatDraws : GraphScaleOf(frame.draws[i].obj) = <<1, 1000>>

\* C16: every intensity handed to the colour mapper lies in [0, 1], whatever the
\* edge length, the graph scale the reader returned (zero and negative numbers
\* included) and the gradient limit.
C16_IntensityInRange ==
    LastOp = "ShadeEdge" =>
        RLe(Zero, frame.color.value) /\ RLe(frame.color.value, One)

\* the tree has an output node, the one Inject looks at, whose geometry input
\* is linked
OutputLinked(tree) ==
    /\ FindOutputNode(tree) # None
    /\ LinksInto(tree, tree.nodes[FindOutputNode(tree)].name, "in0") # {}

\* C13: when a Toggle that enables the overlay or a Refresh while Active has run,
\* every object of the scene whose located tree had an output node with a linked
\* geometry input carries the bridging node, whatever else is in the scene.
C13_BatchInjectsEveryEligible ==
    [][(LastOp' \in {"Toggle", "Refresh"} /\ is_drawing_active') =>
           \A o \in scene' :
               (LocatedTree(o) # None /\ OutputLinked(trees[LocatedTree(o)]))
                   => Bridges(trees'[LocatedTree(o)]) # {}]_vars

\* a Refresh while Active injected into the tree of an object that comes, in
\* scene order, after an object with no matching modifier, in a scene that also
\* holds an object whose tree has no linked output
C13_Witness ==
    /\ LastOp = "Refresh"
    /\ is_drawing_active
    /\ hist[1].injected
    /\ \E o \in scene, n \in scene :
           /\ n < o
           /\ LocatedTree(n) = None
           /\ LocatedTree(o) # None
           /\ Bridges(trees[LocatedTree(o)]) # {}
    /\ \E o \in scene : LocatedTree(o) # None /\ ~OutputLinked(trees[LocatedTree(o)])

\* the output nodes Inject may pick: the first one flagged active, or the first
\* output node when none is flagged; empty when the tree has no output node
PickedOutputs(tree) ==
    LET outs == {i \in DOMAIN tree.nodes : tree.nodes[i].type = "GROUP_OUTPUT"}
        flagged == {i \in outs : tree.nodes[i].is_active_output}
        pool == IF flagged # {} THEN flagged ELSE outs
    IN  {i \in pool : \A j \in pool : i <= j}

InjectOnUnbridged ==
    /\ LastOp = "Inject"
    /\ LocatedTree(hist[1].obj) # None
    /\ Bridges(hist[1].pre[LocatedTree(hist[1].obj)]) = {}

\* C14: Inject on a located tree without a bridging node leaves the tree as it
\* was when there is no output node or the picked output's geometry input is
\* unlinked; otherwise the direct link is gone, its source feeds the curve input
\* of the new bridging node, the bridging node's mesh output feeds that same
\* geometry input, and nothing else in the tree changed.
C14_InjectRewires ==
    InjectOnUnbridged =>
        LET before == hist[1].pre[LocatedTree(hist[1].obj)]
            after == trees[LocatedTree(hist[1].obj)]
        IN  /\ PickedOutputs(before) = {} => after = before
            /\ \A i \in PickedOutputs(before) :
                   LET out == before.nodes[i].name
                   IN  /\ LinksInto(before, out, "in0") = {} => after = before
                       /\ \A l \in LinksInto(before, out, "in0") :
                              /\ l \notin after.links
                              /\ Link(l.fn, l.fs, AUTO_NODE_NAME, "Curve") \in after.links
                              /\ Link(AUTO_NODE_NAME, "Mesh", out, "in0") \in after.links
                              /\ after.links =
                                     (before.links \ {l}) \cup
                                         {Link(l.fn, l.fs, AUTO_NODE_NAME, "Curve"),
                                          Link(AUTO_NODE_NAME, "Mesh", out, "in0")}
                              /\ Cardinality(Bridges(after)) = 1
                              /\ SubSeq(after.nodes, 1, Len(before.nodes)) = before.nodes
                              /\ Len(after.nodes) = Len(before.nodes) + 1

\* Inject rewired a tree whose first output node is not the one flagged active
C14_Witness ==
    /\ InjectOnUnbridged
    /\ \E i \in PickedOutputs(hist[1].pre[LocatedTree(hist[1].obj)]) :
           \E j \in 1..(i - 1) :
               hist[1].pre[LocatedTree(hist[1].obj)].nodes[j].type = "GROUP_OUTPUT"
    /\ Bridges(trees[LocatedTree(hist[1].obj)]) # {}

RemoveOnBridged ==
    /\ LastOp = "Remove"
    /\ LocatedTree(hist[1].obj) # None
    /\ HasNode(hist[1].pre[LocatedTree(hist[1].obj)], AUTO_NODE_NAME)

\* the links that feed each downstream target of the mesh output directly from
\* the source at the curve input
Rejoined(tree) ==
    {Link(s.fn, s.fs, l.tn, l.ts) :
        s \in LinksInto(tree, AUTO_NODE_NAME, "Curve"),
        l \in LinksFrom(tree, AUTO_NODE_NAME, "Mesh")}

\* C15: Remove on a located tree that holds the bridging node ends with the
\* bridging node absent and the other nodes kept; with the curve input and the
\* mesh output both linked, every target of the mesh output is fed directly by
\* the source of the curve input; with either side unlinked no link is created.
C15_RemoveReconnects ==
    RemoveOnBridged =>
        LET before == hist[1].pre[LocatedTree(hist[1].obj)]
            after == trees[LocatedTree(hist[1].obj)]
        IN  /\ ~HasNode(after, AUTO_NODE_NAME)
            /\ after.nodes = SelectSeq(before.nodes, LAMBDA n : n.name # AUTO_NODE_NAME)
            /\ Rejoined(before) \subseteq after.links
            /\ after.links \subseteq (before.links \cup Rejoined(before))
            /\ \A l \in before.links :
                   (l.fn # AUTO_NODE_NAME /\ l.tn # AUTO_NODE_NAME /\
                    ~\E r \in Rejoined(before) : r.tn = l.tn /\ r.ts = l.ts)
                       => l \in after.links

\* Remove ran on a tree whose bridging node fed two targets, and both are now fed
\* by the former source
C15_Witness ==
    /\ RemoveOnBridged
    /\ Cardinality(Rejoined(hist[1].pre[LocatedTree(hist[1].obj)])) = 2
    /\ Rejoined(hist[1].pre[LocatedTree(hist[1].obj)])
           \subseteq trees[LocatedTree(hist[1].obj)].links

\* the objects of the scene the frame got as far as evaluating, and failed on
FailedEvaluation(o) ==
    /\ o \in scene
    /\ Drawable(o)
    /\ view[o].visible
    /\ view[o].raises

DrawsOf(o) == {i \in DOMAIN frame.draws : frame.draws[i].obj = o}

\* C17: in a completed frame an object whose mesh evaluation failed has no batch
\* drawn, every other visible matching object with edges has one, wherever it
\* stands in scene order, and the frame ends with the GPU state restored.
C17_FailureSkipsOnlyThatObject ==
    (frame.ran /\ ~frame.aborted) =>
        /\ \A o \in Objs : FailedEvaluation(o) => DrawsOf(o) = {}
        /\ \A o \in Objs : (Drawn(o) /\ EdgesOf(o) # <<>>) => DrawsOf(o) # {}
        /\ gpu.depth = "LESS_EQUAL"
        /\ gpu.width = One

\* a completed frame in which the evaluation of one object failed and objects
\* before it and after it in scene order were drawn
C17_Witness ==
    /\ frame.ran
    /\ ~frame.aborted
    /\ \E a \in Objs, f \in Objs, b \in Objs :
           /\ a < f
           /\ f < b
           /\ FailedEvaluation(f)
           /\ DrawsOf(a) # {}
           /\ DrawsOf(b) # {}

\* the line width one unit under the global thickness, at least 1.0
ConnectorWidth == RMax(One, RSub(cfg.sd_cgraph_thickness, One))

\* C18: in a completed frame every connector batch was drawn at the width
\* max(1.0, thickness - 1) and every heatmap batch at the global thickness,
\* whatever was drawn before it.
C18_BatchWidths ==
    (frame.ran /\ ~frame.aborted) =>
        \A i \in DOMAIN frame.draws :
            /\ frame.draws[i].batch = "connector" =>
                   frame.draws[i].width = ConnectorWidth
            /\ frame.draws[i].batch = "heatmap" =>
                   frame.draws[i].width = cfg.sd_cgraph_thickness

\* a frame whose thickness is above 1 drew the connector batch of one object and
\* then the heatmap batch of a later object
C18_Witness ==
    /\ frame.ran
    /\ ~frame.aborted
    /\ ConnectorWidth # cfg.sd_cgraph_thickness
    /\ \E i \in DOMAIN frame.draws, j \in DOMAIN frame.draws :
           /\ i < j
           /\ frame.draws[i].batch = "connector"
           /\ frame.draws[j].batch = "heatmap"
           /\ frame.draws[i].obj # frame.draws[j].obj

\* the node tree of the first modifier of the object, in stack order, that is
\* node based and whose node-group name contains "cgraph" in any letter case;
\* None when the object has no such modifier
FirstCGraphTree(o) ==
    LET hits == SelectSeq(ObjKind(o).modifiers,
                    LAMBDA m : /\ m.type = "NODES"
                               /\ m.node_group # None
                               /\ Contains(Lower(TreeNames[m.node_group]), CGRAPH))
    IN  IF hits = <<>> THEN None ELSE Head(hits).node_group

\* C19: an Inject or a Remove for an object changes no node tree other than the
\* one of the object's first matching modifier, and changes neither the active
\* flag nor the draw handle nor the registration; for an object with no matching
\* modifier no tree changes.
C19_OnlyLocatedTreeChanges ==
    [][LastOp' \in {"Inject", "Remove"} =>
           /\ is_drawing_active' = is_drawing_active
           /\ draw_handler' = draw_handler
           /\ registered' = registered
           /\ \A t \in TreeIds :
                  t # FirstCGraphTree(hist'[1].obj) => trees'[t] = trees[t]]_vars

\* an Inject or a Remove changed the tree of an object that has other modifiers
\* with other trees, one of them matching as well
C19_Witness ==
    /\ LastOp \in {"Inject", "Remove"}
    /\ trees # hist[1].pre
    /\ \E t \in TreesOf(hist[1].obj) :
           /\ t # FirstCGraphTree(hist[1].obj)
           /\ Contains(Lower(TreeNames[t]), CGRAPH)

====
